---------------------------- MODULE Spec2Model ----------------------------
(***************************************************************************)
(* Model of fellchensammlung/models.py: the relational store of adoption   *)
(* notices, animals, comments, reports and moderation actions, the photo   *)
(* resolution of AdoptionNotice (get_photos / get_photo) and the           *)
(* moderation workflow on Report / ModerationAction, the Member record of   *)
(* a User, and of fellchensammlung/tools.                                  *)
(*                                                                         *)
(* Every table is a function from primary keys to rows.  Integer primary   *)
(* keys are handed out by a per-table counter and never reused; Report's   *)
(* UUID key is modelled by a counter as well (a fresh, never reused value).*)
(* A queryset without an explicit ordering is iterated in the order the    *)
(* rows were inserted: primary-key order for a table, attachment order for *)
(* a many-to-many relation.                                                *)
(***************************************************************************)
EXTENDS Integers, Sequences, FiniteSets

\* ---------------------------------------------------------------- bounds
\* Rows inserted over a run, all tables together.
MaxRows == 6
\* Rows of the table Image.
MaxImages == 2

MaxEdits == 4

MaxAnnouncements == 2

\* The clock runs from 1 to LastTime.
LastTime == 4

Images == 1 .. MaxImages

\* ------------------------------------------------------- program constants
\* Report.STATES
ACTION_TAKEN == "action taken"
\* Faulty variant of NO_ACTION_TAKEN: the value of WAITING pasted in.
NO_ACTION_TAKEN_pasted == "waiting"

NO_ACTION_TAKEN == "no action taken"
WAITING == "waiting"

\* ModerationAction.BAN .. NONE
BAN == "user_banned"
DELETE == "content_deleted"
COMMENT == "comment"
\* ModerationAction.OTHER (OTHER is a reserved word of TLA+)
OTHER_ACTION == "other_action_taken"
NONE == "no_action_taken"
\* ModerationAction.ACTIONS (ACTIONS is a reserved word of TLA+)
ACTION_CHOICES == {BAN, DELETE, COMMENT, OTHER_ACTION, NONE}

\* Python's None and a returned value.
None == [is_none |-> TRUE]
Some(v) == [is_none |-> FALSE, value |-> v]

\* A nullable foreign key that is NULL.
NULL == 0

\* The tables of models.py (line numbers of models.py in brackets).
VARIABLES
    AdoptionNotice,        \* [107-126] id -> [photos: sequence of Image]
    Animal,                \* [175-193] id -> [adoption_notice, photos]
    Comment,               \* [436-444] id -> [adoption_notice, reply_to]
    Report,                \* [242-259] id -> [status]
    ReportAdoptionNotice,  \* [275-276] report_ptr -> [adoption_notice]
    ReportComment,         \* [283-284] report_ptr -> [reported_comment]
    ModerationAction,      \* [291-309] id -> [action, report]
    User,                  \* [322-323] id -> [id]
    Member,                \* [326-352] id -> [user, trust_level]
    Location,              \* [65-69]   id -> [place_id, latitude, longitude, name]
    Group,                 \* django.contrib.auth Group: id -> [name, permissions]
    Announcement,          \* [387-403] id -> [language, text_code, logged_in_only,
                           \*                  publish_start_time, publish_end_time]
    now,                   \* [407]     timezone.now()
    next_id,               \* per-table primary-key counter
    outcome                \* the last operation: a file_report call with its
                           \* target and result, or another operation

vars == <<AdoptionNotice, Animal, Comment, Report, ReportAdoptionNotice,
          ReportComment, ModerationAction, User, Member, Location, Group,
          Announcement, now, next_id, outcome>>

member_vars == <<User, Member>>

geo_vars == <<Location>>

group_vars == <<Group>>

announcement_vars == <<Announcement, now>>

\* What the operations on notices, photos and reports leave alone.
extra_vars == <<member_vars, geo_vars, group_vars, announcement_vars>>

report_vars == <<Report, ReportAdoptionNotice, ReportComment, ModerationAction>>

\* ---------------------------------------------------------------- helpers
Max(S) == CHOOSE x \in S : \A y \in S : y <= x

\* The rows of a table whose keys are in S, in primary-key order.
RECURSIVE OrderedByPk(_)
OrderedByPk(S) ==
    IF S = {} THEN <<>>
    ELSE LET m == Max(S) IN Append(OrderedByPk(S \ {m}), m)

Restrict(f, S) == [k \in S |-> f[k]]

Insert(f, k, row) == [j \in DOMAIN f \cup {k} |-> IF j = k THEN row ELSE f[j]]

Range(s) == {s[i] : i \in DOMAIN s}

\* Rows inserted so far; a primary key is never handed out twice.
Inserted == (next_id.notice - 1) + (next_id.animal - 1) + (next_id.comment - 1)
            + (next_id.report - 1) + (next_id.action - 1) + (next_id.photo - 1)
            + (next_id.user - 1) + (next_id.member - 1)
            + (next_id.location - 1) + (next_id.query - 1)

Room == Inserted < MaxRows

\* ------------------------------------------------------ photo resolution
\* AdoptionNotice.animals: Animal.objects.filter(adoption_notice=self)
animals(self) ==
    OrderedByPk({a \in DOMAIN Animal : Animal[a].adoption_notice = self})

\* Faulty variant of extend_all: photos = animal.photos.all() in place of
\* photos.extend(...), which keeps the last animal's photos only.
extend_all_assign(animal_seq) ==
    IF animal_seq = <<>> THEN <<>>
    ELSE Animal[animal_seq[Len(animal_seq)]].photos

\* photos = []; for animal in self.animals: photos.extend(animal.photos.all())
RECURSIVE extend_all(_)
extend_all(animal_seq) ==
    IF animal_seq = <<>> THEN <<>>
    ELSE extend_all(SubSeq(animal_seq, 1, Len(animal_seq) - 1))
         \o Animal[animal_seq[Len(animal_seq)]].photos

\* Faulty variant of get_photos: the animals' photos are collected whether or not
\* the notice has photos of its own.
get_photos_no_precedence(self) ==
    LET photos == AdoptionNotice[self].photos \o extend_all(animals(self))
    IN  IF Len(photos) > 0 THEN Some(photos) ELSE None

\* AdoptionNotice.get_photos
get_photos(self) ==
    LET group_photos == AdoptionNotice[self].photos
    IN  IF Len(group_photos) > 0
        THEN Some(group_photos)
        ELSE LET photos == extend_all(animals(self))
             IN  IF Len(photos) > 0 THEN Some(photos) ELSE None

\* Faulty variant of get_photo: the animals' photos are tried first.
get_photo_animals_first(self) ==
    LET photos == extend_all(animals(self))
    IN  IF Len(photos) > 0 THEN Some(photos[1])
        ELSE IF Len(AdoptionNotice[self].photos) > 0
             THEN Some(AdoptionNotice[self].photos[1])
             ELSE None

\* AdoptionNotice.get_photo
get_photo(self) ==
    LET group_photos == AdoptionNotice[self].photos
    IN  IF Len(group_photos) > 0
        THEN Some(group_photos[1])
        ELSE LET photos == extend_all(animals(self))
             IN  IF Len(photos) > 0 THEN Some(photos[1]) ELSE None

\* ------------------------------------------------------------------- Init
NoTarget == [kind |-> "none", id |-> NULL]

\* No file_report call is the last operation.
Idle == [op |-> "other", target |-> NoTarget, result |-> "ok"]

Init ==
    /\ AdoptionNotice = <<>>
    /\ Animal = <<>>
    /\ Comment = <<>>
    /\ Report = <<>>
    /\ ReportAdoptionNotice = <<>>
    /\ ReportComment = <<>>
    /\ ModerationAction = <<>>
    /\ next_id = [notice |-> 1, animal |-> 1, comment |-> 1,
                  report |-> 1, action |-> 1, photo |-> 1,
                  user |-> 1, member |-> 1, location |-> 1, query |-> 1,
                  group |-> 1, edit |-> 1, announcement |-> 1]
    /\ User = <<>>
    /\ Member = <<>>
    /\ Location = <<>>
    /\ Group = <<>>
    /\ Announcement = <<>>
    /\ now = 1
    /\ outcome = Idle

\* ----------------------------------------------------------- store: create
\* AdoptionNotice.objects.create(...): a new notice has no photos.
create_adoption_notice ==
    /\ Room
    /\ AdoptionNotice' = Insert(AdoptionNotice, next_id.notice, [photos |-> <<>>])
    /\ next_id' = [next_id EXCEPT !.notice = @ + 1]
    /\ outcome' = Idle
    /\ UNCHANGED extra_vars
    /\ UNCHANGED <<Animal, Comment, report_vars>>

\* adoption_notice.photos.add(image): the relation holds an image once.
add_notice_photo ==
    \E n \in DOMAIN AdoptionNotice, i \in Images :
        /\ i \notin Range(AdoptionNotice[n].photos)
        /\ Room
        /\ AdoptionNotice' = [AdoptionNotice EXCEPT ![n].photos = Append(@, i)]
        /\ next_id' = [next_id EXCEPT !.photo = @ + 1]
        /\ outcome' = Idle
        /\ UNCHANGED extra_vars
        /\ UNCHANGED <<Animal, Comment, report_vars>>

\* Animal.objects.create(adoption_notice=n, ...): the foreign key is not
\* nullable and must name an existing notice.
create_animal ==
    \E n \in DOMAIN AdoptionNotice :
        /\ Room
        /\ Animal' = Insert(Animal, next_id.animal,
                            [adoption_notice |-> n, photos |-> <<>>])
        /\ next_id' = [next_id EXCEPT !.animal = @ + 1]
        /\ outcome' = Idle
        /\ UNCHANGED extra_vars
        /\ UNCHANGED <<AdoptionNotice, Comment, report_vars>>

\* animal.photos.add(image)
add_animal_photo ==
    \E a \in DOMAIN Animal, i \in Images :
        /\ i \notin Range(Animal[a].photos)
        /\ Room
        /\ Animal' = [Animal EXCEPT ![a].photos = Append(@, i)]
        /\ next_id' = [next_id EXCEPT !.photo = @ + 1]
        /\ outcome' = Idle
        /\ UNCHANGED extra_vars
        /\ UNCHANGED <<AdoptionNotice, Comment, report_vars>>

\* ----------------------------------------------------------- store: delete
\* Comment.adoption_notice and Comment.reply_to are on_delete=CASCADE: the
\* comments deleted together with the notices ns and the comments cs.
RECURSIVE with_replies(_)
with_replies(cs) ==
    LET replies == {c \in DOMAIN Comment : Comment[c].reply_to \in cs} \ cs
    IN  IF replies = {} THEN cs ELSE with_replies(cs \cup replies)

cascade_comments(ns, cs) ==
    with_replies(cs \cup {c \in DOMAIN Comment : Comment[c].adoption_notice \in ns})

\* ReportAdoptionNotice.adoption_notice is on_delete=CASCADE
cascade_report_adoption_notices(ns) ==
    {r \in DOMAIN ReportAdoptionNotice : ReportAdoptionNotice[r].adoption_notice \in ns}

\* ReportComment.reported_comment is on_delete=CASCADE
cascade_report_comments(cs) ==
    {r \in DOMAIN ReportComment : ReportComment[r].reported_comment \in cs}

\* Faulty variant of cascade_reports: the parent rows are kept (keep_parents=True).
cascade_reports_keep_parents(child_rows) == {}

\* Deleting a row of a child model deletes the row of its parent model Report.
cascade_reports(child_rows) == DOMAIN Report \cap child_rows

\* ModerationAction.report is on_delete=CASCADE
cascade_moderation_actions(rs) ==
    {a \in DOMAIN ModerationAction : ModerationAction[a].report \in rs}

\* The deletion of the notices ns and the comments cs with everything that
\* cascades from them.
delete_cascading(ns, cs) ==
    LET dead_comments == cascade_comments(ns, cs)
        dead_ran == cascade_report_adoption_notices(ns)
        dead_rc == cascade_report_comments(dead_comments)
        dead_reports == cascade_reports(dead_ran \cup dead_rc)
        dead_actions == cascade_moderation_actions(dead_reports)
    IN  /\ AdoptionNotice' = Restrict(AdoptionNotice, DOMAIN AdoptionNotice \ ns)
        \* Animal.adoption_notice is on_delete=CASCADE
        /\ Animal' = Restrict(Animal, {a \in DOMAIN Animal :
                                          Animal[a].adoption_notice \notin ns})
        /\ Comment' = Restrict(Comment, DOMAIN Comment \ dead_comments)
        /\ ReportAdoptionNotice' =
               Restrict(ReportAdoptionNotice, DOMAIN ReportAdoptionNotice \ dead_ran)
        /\ ReportComment' = Restrict(ReportComment, DOMAIN ReportComment \ dead_rc)
        /\ Report' = Restrict(Report, DOMAIN Report \ dead_reports)
        /\ ModerationAction' =
               Restrict(ModerationAction, DOMAIN ModerationAction \ dead_actions)

\* adoption_notice.delete()
delete_adoption_notice ==
    \E n \in DOMAIN AdoptionNotice :
        /\ delete_cascading({n}, {})
        /\ outcome' = Idle
        /\ UNCHANGED extra_vars
        /\ UNCHANGED next_id

\* comment.delete()
delete_comment ==
    \E c \in DOMAIN Comment :
        /\ delete_cascading({}, {c})
        /\ outcome' = Idle
        /\ UNCHANGED extra_vars
        /\ UNCHANGED next_id

\* Comment.objects.create(adoption_notice=n, reply_to=c or None, ...)
create_comment ==
    \E n \in DOMAIN AdoptionNotice, c \in DOMAIN Comment \cup {NULL} :
        /\ Room
        /\ Comment' = Insert(Comment, next_id.comment,
                             [adoption_notice |-> n, reply_to |-> c])
        /\ next_id' = [next_id EXCEPT !.comment = @ + 1]
        /\ outcome' = Idle
        /\ UNCHANGED extra_vars
        /\ UNCHANGED <<AdoptionNotice, Animal, report_vars>>

\* ----------------------------------------------------- moderation workflow
\* Faulty variants of filter_report: newest first (order_by("-id")), the filter on
\* the wrong field (id=self), and no filter at all.
RECURSIVE Reverse(_)
Reverse(s) == IF s = <<>> THEN <<>> ELSE Append(Reverse(Tail(s)), Head(s))

filter_report_newest_first(objects, self) ==
    Reverse(OrderedByPk({a \in DOMAIN objects : objects[a].report = self}))

filter_report_wrong_field(objects, self) ==
    OrderedByPk({a \in DOMAIN objects : a = self})

filter_report_unfiltered(objects, self) ==
    OrderedByPk(DOMAIN objects)

\* ModerationAction.objects.filter(report=self), objects being the rows of
\* ModerationAction.
filter_report(objects, self) ==
    OrderedByPk({a \in DOMAIN objects : objects[a].report = self})

\* Report.get_moderation_actions
get_moderation_actions(self) == filter_report(ModerationAction, self)

\* The foreign key ReportAdoptionNotice.adoption_notice names a stored notice.
adoption_notice_exists(n) == n \in DOMAIN AdoptionNotice

\* Faulty variant of reported_comment_exists: the reference is not checked.
reported_comment_exists_unchecked(c) == TRUE

\* The foreign key ReportComment.reported_comment names a stored comment.
reported_comment_exists(c) == c \in DOMAIN Comment

\* What a caller can pass as target: nothing, or the key of a notice or of a
\* comment that is stored, was deleted, or was never stored (the next key).
Targets ==
    {NoTarget}
    \cup [kind : {"notice"}, id : 1 .. next_id.notice]
    \cup [kind : {"comment"}, id : 1 .. next_id.comment]

target_exists(target) ==
    IF target.kind = "notice" THEN adoption_notice_exists(target.id)
    ELSE reported_comment_exists(target.id)

Failed(target, error) ==
    /\ outcome' = [op |-> "file_report", target |-> target, result |-> error]
    /\ UNCHANGED <<AdoptionNotice, Animal, Comment, report_vars, next_id>>
    /\ UNCHANGED extra_vars

\* file_report(target, violated_rules, comment) -> Report
file_report ==
    \E target \in Targets :
        IF target.kind = "none" THEN Failed(target, "InvalidTarget")
        ELSE IF ~target_exists(target) THEN Failed(target, "NotFound")
        ELSE /\ Room
             /\ Report' = Insert(Report, next_id.report, [status |-> WAITING])
             /\ IF target.kind = "notice"
                THEN /\ ReportAdoptionNotice' =
                            Insert(ReportAdoptionNotice, next_id.report,
                                   [adoption_notice |-> target.id])
                     /\ UNCHANGED ReportComment
                ELSE /\ ReportComment' =
                            Insert(ReportComment, next_id.report,
                                   [reported_comment |-> target.id])
                     /\ UNCHANGED ReportAdoptionNotice
             /\ next_id' = [next_id EXCEPT !.report = @ + 1]
             /\ outcome' = [op |-> "file_report", target |-> target, result |-> "ok"]
             /\ UNCHANGED <<AdoptionNotice, Animal, Comment, ModerationAction>>
             /\ UNCHANGED extra_vars

\* apply_action(report, action_kind, public_comment, private_comment)
apply_action ==
    \E report \in DOMAIN Report, action_kind \in ACTION_CHOICES :
        /\ Room
        /\ ModerationAction' = Insert(ModerationAction, next_id.action,
                                      [action |-> action_kind, report |-> report])
        /\ Report' = [Report EXCEPT ![report].status =
                          IF action_kind = NONE THEN NO_ACTION_TAKEN
                          ELSE ACTION_TAKEN]
        /\ next_id' = [next_id EXCEPT !.action = @ + 1]
        /\ outcome' = Idle
        /\ UNCHANGED extra_vars
        /\ UNCHANGED <<AdoptionNotice, Animal, Comment, ReportAdoptionNotice,
                       ReportComment>>

\* ----------------------------------------------------------------- members
\* Member.MEMBER, the default of Member.trust_level
MEMBER == "Mitglied"

core_vars == <<AdoptionNotice, Animal, Comment, report_vars>>

\* What the operations on users and members leave alone.
not_member_vars == <<core_vars, geo_vars, group_vars, announcement_vars>>

\* Member.objects.filter(user=instance)
members_of(instance) == {m \in DOMAIN Member : Member[m].user = instance}

\* Member.add_member, the receiver of post_save of User:
\*   if len(Member.objects.filter(user=instance)) != 1:
\*       Member.objects.create(user=instance)
\* with the counter of User advanced by user_rows in the same step.
add_member(instance, user_rows) ==
    IF Cardinality(members_of(instance)) # 1
    THEN /\ Room
         /\ Member' = Insert(Member, next_id.member,
                             [user |-> instance, trust_level |-> MEMBER])
         /\ next_id' = [next_id EXCEPT !.member = @ + 1, !.user = @ + user_rows]
    ELSE /\ UNCHANGED Member
         /\ next_id' = [next_id EXCEPT !.user = @ + user_rows]

\* User.objects.create(...): the row is saved and post_save runs add_member.
create_user ==
    /\ Room
    /\ User' = Insert(User, next_id.user, [id |-> next_id.user])
    /\ add_member(next_id.user, 1)
    /\ outcome' = Idle
    /\ UNCHANGED not_member_vars

\* user.save() of a stored user: post_save runs add_member again.
save_user ==
    \E u \in DOMAIN User :
        /\ add_member(u, 0)
        /\ outcome' = Idle
        /\ UNCHANGED <<User, not_member_vars>>

\* member.delete(): Member.user points from Member to User, the user stays.
delete_member ==
    \E m \in DOMAIN Member :
        /\ Member' = Restrict(Member, DOMAIN Member \ {m})
        /\ outcome' = Idle
        /\ UNCHANGED <<User, next_id, not_member_vars>>

\* user.delete(): Member.user is on_delete=CASCADE.
delete_user ==
    \E u \in DOMAIN User :
        /\ User' = Restrict(User, DOMAIN User \ {u})
        /\ Member' = Restrict(Member, DOMAIN Member \ members_of(u))
        /\ outcome' = Idle
        /\ UNCHANGED <<next_id, not_member_vars>>

\* --------------------------------------------------------------------- geo
\* The keys of one result of the search endpoint that the code reads.
Keys == {"place_id", "osm_id", "lat", "lon", "name", "display_name"}

\* ResponseMock.content, decoded by ResponseMock.json(): one result.
ResponseMock ==
    << [place_id |-> 138181499, osm_id |-> 1247237, lat |-> "48.4949904",
        lon |-> "9.040330235970146", name |-> "72072",
        display_name |-> "72072, Derendingen"] >>

\* place_id of the results an upstream response can hold.
PlaceIds == {138181499, 2}

\* One result with the keys S, and the values of ResponseMock but place_id.
Result(S, p) ==
    [k \in S |-> IF k = "place_id" THEN p ELSE ResponseMock[1][k]]

\* The JSON arrays the search endpoint can answer with: no result, one
\* result with any of the keys, or a result followed by a second one.
Responses ==
    {<<>>}
        \cup {<<Result(S, p)>> : S \in SUBSET Keys, p \in PlaceIds}
        \cup {<<Result(S, 2), Result(Keys, 3)>> :
                  S \in {Keys, Keys \ {"name"}, Keys \ {"lat"}}}

\* FloatField.to_python of a coordinate string, in units of 1e-7 degree.
to_python(value) ==
    CASE value = "48.4949904" -> 484949904
      [] value = "9.040330235970146" -> 90403302

\* What the operations of geo leave alone.
not_geo_vars == <<core_vars, member_vars, group_vars, announcement_vars>>

\* A call that ended in an exception: nothing is stored.
raised(op, response, exception, queries) ==
    /\ outcome' = [op |-> op, target |-> NoTarget, result |-> exception,
                   response |-> response]
    /\ next_id' = [next_id EXCEPT !.query = @ + queries]
    /\ UNCHANGED <<Location, not_geo_vars>>

\* Faulty variant of result_name: the display name is always taken.
result_name_display(result) ==
    IF "display_name" \in DOMAIN result THEN Some(result["display_name"])
    ELSE None

\* if "name" in result: name = result["name"]
\* else: name = result["display_name"]
\* None stands for the KeyError of the second branch.
result_name(result) ==
    IF "name" \in DOMAIN result THEN Some(result["name"])
    ELSE IF "display_name" \in DOMAIN result THEN Some(result["display_name"])
    ELSE None

\* Location.get_location_from_string(location_string).
\* geo_api.get_geojson_for_query issues the one query of the call and
\* returns the JSON array of the answer.
Location_get_location_from_string ==
    \E get_geojson \in Responses :
        LET op == "Location.get_location_from_string" IN
        /\ Room
        /\ IF Len(get_geojson) = 0
           THEN raised(op, get_geojson, "IndexError", 1)
           ELSE LET result == get_geojson[1]
                    name == result_name(result)
                IN  IF \/ name.is_none
                       \/ ~ ({"place_id", "lat", "lon"} \subseteq DOMAIN result)
                    THEN raised(op, get_geojson, "KeyError", 1)
                    ELSE /\ Location' =
                                Insert(Location, next_id.location,
                                       [place_id |-> result["place_id"],
                                        latitude |-> to_python(result["lat"]),
                                        longitude |-> to_python(result["lon"]),
                                        name |-> name.value])
                         /\ next_id' = [next_id EXCEPT !.query = @ + 1,
                                                       !.location = @ + 1]
                         /\ outcome' = [op |-> op, target |-> NoTarget,
                                        result |-> "ok",
                                        response |-> get_geojson]
                         /\ UNCHANGED not_geo_vars

\* GeoAPI(debug).get_location_from_string(location_string): RequestMock
\* answers without a query when debug is set.  Location has no field
\* osm_id, so Location.objects.create(osm_id=...) raises TypeError.
GeoAPI_get_location_from_string ==
    \E debug \in BOOLEAN :
        \E json \in IF debug THEN {ResponseMock} ELSE Responses :
            LET op == "GeoAPI.get_location_from_string"
                queries == IF debug THEN 0 ELSE 1
            IN  /\ Room
                /\ IF Len(json) = 0
                   THEN raised(op, json, "IndexError", queries)
                   ELSE IF ~ ({"place_id", "osm_id", "lat", "lon", "name"}
                                  \subseteq DOMAIN json[1])
                   THEN raised(op, json, "KeyError", queries)
                   ELSE raised(op, json, "TypeError", queries)

\* ------------------------------------------------------------------ groups
\* Permission rows by codename: the four that ensure_groups names, and one
\* of the default permissions that it does not name.
Permission ==
    {"create_active_adoption_notice", "view_report", "add_moderationaction",
     "change_user", "delete_adoptionnotice"}

\* Names of Group rows: the four of ensure_groups, and one other.
GroupNames == {"Admins", "Moderators", "Coordinators", "Members", "Editors"}

\* An administrator changes groups by hand at most MaxEdits times.
CanEdit == next_id.edit <= MaxEdits

\* What the operations on groups leave alone.
not_group_vars == <<core_vars, member_vars, geo_vars, announcement_vars>>

\* Group.objects.filter(name=name)
groups_named(G, name) == {g \in DOMAIN G : G[g].name = name}

\* Group.objects.create(name=...) by an administrator; Group.name is unique.
create_group ==
    \E name \in GroupNames :
        /\ CanEdit
        /\ groups_named(Group, name) = {}
        /\ Group' = Insert(Group, next_id.group,
                           [name |-> name, permissions |-> {}])
        /\ next_id' = [next_id EXCEPT !.group = @ + 1, !.edit = @ + 1]
        /\ outcome' = Idle
        /\ UNCHANGED not_group_vars

\* group.permissions.add(permission) by an administrator.
add_permission ==
    \E g \in DOMAIN Group, p \in Permission :
        /\ CanEdit
        /\ p \notin Group[g].permissions
        /\ Group' = [Group EXCEPT ![g].permissions = @ \cup {p}]
        /\ next_id' = [next_id EXCEPT !.edit = @ + 1]
        /\ outcome' = Idle
        /\ UNCHANGED not_group_vars

\* group.delete() by an administrator.
delete_group ==
    \E g \in DOMAIN Group :
        /\ CanEdit
        /\ Group' = Restrict(Group, DOMAIN Group \ {g})
        /\ next_id' = [next_id EXCEPT !.edit = @ + 1]
        /\ outcome' = Idle
        /\ UNCHANGED not_group_vars

\* _get_perms(permission_name_list): Permission.objects.get(codename=...)
\* of each name, in the order of the list.
_get_perms(permission_name_list) ==
    [i \in DOMAIN permission_name_list |->
        CHOOSE permission \in Permission :
            permission = permission_name_list[i]]

member_permissions == <<>>

coordinator_permissions == <<"create_active_adoption_notice">>

\* Faulty variant of moderator_permissions: the coordinators' list is not
\* carried over.
moderator_permissions_alone ==
    <<"view_report", "add_moderationaction", "change_user">>

moderator_permissions ==
    coordinator_permissions
        \o <<"view_report", "add_moderationaction", "change_user">>

admin_permissions == moderator_permissions

\* group, created = Group.objects.get_or_create(name=name)
\* group.permissions.set(permissions)
\* on the groups G with next free id n: the groups and the next free id
\* afterwards.
get_or_create_set(state, name, permissions) ==
    LET G == state.Group
        n == state.next
        found == groups_named(G, name)
    IN  IF found = {}
        THEN [Group |-> Insert(G, n, [name |-> name,
                                      permissions |-> Range(permissions)]),
              next |-> n + 1]
        ELSE [Group |-> [g \in DOMAIN G |->
                            IF g \in found
                            THEN [G[g] EXCEPT !.permissions = Range(permissions)]
                            ELSE G[g]],
              next |-> n]

\* The body of ensure_groups on the groups G with next free id n.
ensured(G, n) ==
    LET admins == get_or_create_set([Group |-> G, next |-> n], "Admins",
                                    _get_perms(admin_permissions))
        moderators == get_or_create_set(admins, "Moderators",
                                        _get_perms(moderator_permissions))
        coordinators == get_or_create_set(moderators, "Coordinators",
                                          _get_perms(coordinator_permissions))
        members == get_or_create_set(coordinators, "Members",
                                     _get_perms(member_permissions))
    IN  members

\* ensure_groups(sender, **kwargs)
ensure_groups ==
    LET after == ensured(Group, next_id.group) IN
    /\ Group' = after.Group
    /\ next_id' = [next_id EXCEPT !.group = after.next]
    /\ outcome' = [op |-> "ensure_groups", target |-> NoTarget, result |-> "ok"]
    /\ UNCHANGED not_group_vars

\* ----------------------------------------------------------- announcements
\* Language rows.
Languages == {"de", "en"}

\* Text.text_code values.
TextCodes == {"a", "b"}

\* What the operations on announcements leave alone.
not_announcement_vars == <<core_vars, member_vars, geo_vars, group_vars>>

\* Announcement.objects.create(...) by an administrator.
create_announcement ==
    \E language \in Languages, text_code \in TextCodes,
       logged_in_only \in BOOLEAN,
       publish_start_time \in {1, 2} :
        /\ next_id.announcement <= MaxAnnouncements
        /\ Announcement' =
               Insert(Announcement, next_id.announcement,
                      [language |-> language, text_code |-> text_code,
                       logged_in_only |-> logged_in_only,
                       publish_start_time |-> publish_start_time,
                       publish_end_time |-> publish_start_time + 2])
        /\ next_id' = [next_id EXCEPT !.announcement = @ + 1]
        /\ outcome' = Idle
        /\ UNCHANGED <<now, not_announcement_vars>>

\* Time passes.
tick ==
    /\ now < LastTime
    /\ now' = now + 1
    /\ outcome' = Idle
    /\ UNCHANGED <<Announcement, next_id, not_announcement_vars>>

\* Faulty variant of is_active: the start instant counts as published.
is_active_from_start(self) ==
    /\ Announcement[self].publish_start_time <= now
    /\ now < Announcement[self].publish_end_time

\* Announcement.is_active
is_active(self) ==
    /\ Announcement[self].publish_start_time < now
    /\ now < Announcement[self].publish_end_time

\* [a for a in queryset if a.is_active], the queryset in primary-key order
active_of(queryset) == SelectSeq(OrderedByPk(queryset), is_active)

\* Announcement.objects.all() if logged_in, else
\* Announcement.objects.filter(logged_in_only=False)
announcements_for(logged_in) ==
    IF logged_in THEN DOMAIN Announcement
    ELSE {a \in DOMAIN Announcement : ~ Announcement[a].logged_in_only}

\* Announcement.get_active_announcements(logged_in, language); language is
\* None or Some(l).
get_active_announcements(logged_in, language) ==
    LET all_active_announcements == active_of(announcements_for(logged_in))
    IN  IF language.is_none
        THEN all_active_announcements
        ELSE LET announcements_in_language ==
                     {a \in announcements_for(logged_in) :
                          Announcement[a].language = language.value}
                 active_announcements_in_language ==
                     active_of(announcements_in_language)
                 text_codes ==
                     {Announcement[a].text_code :
                          a \in Range(active_announcements_in_language)}
                 untranslated(a) ==
                     /\ Announcement[a].language # language.value
                     /\ Announcement[a].text_code \notin text_codes
             IN  active_announcements_in_language
                     \o SelectSeq(all_active_announcements, untranslated)

\* A request asks for the announcements to show.
show_announcements ==
    \E logged_in \in BOOLEAN, language \in {None} \cup {Some(l) : l \in Languages} :
        /\ outcome' = [op |-> "get_active_announcements", target |-> NoTarget,
                       result |-> get_active_announcements(logged_in, language),
                       logged_in |-> logged_in, language |-> language]
        /\ UNCHANGED <<Announcement, now, next_id, not_announcement_vars>>

\* --------------------------------------------------------------- distance
\* Floats are fixed-point numbers with four decimals: the float v is the
\* integer v * Scale.  Angles reach the function in whole degrees.
Scale == 10000

\* math.pi
PI == 31416

earth_radius_km == 6371

\* Division of floats is sign-symmetric: (-a) / b = -(a / b).
quot(a, b) == IF a < 0 THEN 0 - ((0 - a) \div b) ELSE a \div b

\* The product of two floats.
mul(a, b) == quot(a * b, Scale)

\* float(position[i]) of a coordinate in whole degrees
float(v) == v * Scale

\* math.radians(x) = x * pi / 180, the product kept within 32 bits
radians(x) == quot(quot(x, 100) * PI, 180 * 100)

\* sin on [0, pi / 2] by its Taylor polynomial up to x^11.
sin_series(x) ==
    LET x2 == mul(x, x)
        t3 == quot(mul(x, x2), 6)
        t5 == quot(mul(t3, x2), 20)
        t7 == quot(mul(t5, x2), 42)
        t9 == quot(mul(t7, x2), 72)
        t11 == quot(mul(t9, x2), 110)
    IN  x - t3 + t5 - t7 + t9 - t11

\* math.sin(x) for -pi <= x <= pi
sin(x) ==
    LET y == IF x < 0 THEN 0 - x ELSE x
        s == IF 2 * y > PI THEN sin_series(PI - y) ELSE sin_series(y)
    IN  IF x < 0 THEN 0 - s ELSE s

\* math.cos(x) for -pi / 2 <= x <= pi / 2
cos(x) ==
    LET y == IF x < 0 THEN 0 - x ELSE x
    IN  sin_series(quot(PI, 2) - y)

\* Newton's iteration for the integer square root of n from the guess x.
RECURSIVE newton(_, _)
newton(n, x) ==
    LET y == (x + n \div x) \div 2
    IN  IF y >= x THEN x ELSE newton(n, y)

\* math.sqrt(a) for a >= 0
sqrt(a) == IF a = 0 THEN 0 ELSE newton(a * Scale, a * Scale)

\* atan on [0, tan(pi / 8)] by its Taylor polynomial up to t^9.
atan_series(t) ==
    LET t2 == mul(t, t)
        t3 == mul(t, t2)
        t5 == mul(t3, t2)
        t7 == mul(t5, t2)
        t9 == mul(t7, t2)
    IN  t - quot(t3, 3) + quot(t5, 5) - quot(t7, 7) + quot(t9, 9)

\* atan on [0, 1]: atan(t) = 2 * atan(t / (1 + sqrt(1 + t^2)))
atan(t) ==
    2 * atan_series(quot(t * Scale, Scale + sqrt(Scale + mul(t, t))))

\* math.atan2(y, x) for y >= 0 and x >= 0, not both 0
atan2(y, x) ==
    IF y = 0 THEN 0
    ELSE IF y <= x THEN atan(quot(y * Scale, x))
    ELSE quot(PI, 2) - atan(quot(x * Scale, y))

\* Faulty variant of haversine: the first longitude is left out.
haversine_second_longitude(latitude1, longitude1, latitude2, longitude2) ==
    LET distance_lat == radians(latitude2 - latitude1)
        distance_long == radians(longitude2)
        sin_lat == sin(quot(distance_lat, 2))
        sin_long == sin(quot(distance_long, 2))
    IN  mul(sin_lat, sin_lat)
            + mul(mul(cos(radians(latitude1)), cos(radians(latitude2))),
                  mul(sin_long, sin_long))

\* a = pow(sin(distance_lat / 2), 2) + cos(radians(latitude1))
\*         * cos(radians(latitude2)) * pow(sin(distance_long / 2), 2)
haversine(latitude1, longitude1, latitude2, longitude2) ==
    LET distance_lat == radians(latitude2 - latitude1)
        distance_long == radians(longitude2 - longitude1)
        sin_lat == sin(quot(distance_lat, 2))
        sin_long == sin(quot(distance_long, 2))
    IN  mul(sin_lat, sin_lat)
            + mul(mul(cos(radians(latitude1)), cos(radians(latitude2))),
                  mul(sin_long, sin_long))

\* calculate_distance_between_coordinates(position1, position2), the
\* result in units of 1 / Scale km.
calculate_distance_between_coordinates(position1, position2) ==
    LET latitude1 == float(position1[1])
        longitude1 == float(position1[2])
        latitude2 == float(position2[1])
        longitude2 == float(position2[2])
        a == haversine(latitude1, longitude1, latitude2, longitude2)
        c == 2 * atan2(sqrt(a), sqrt(Scale - a))
    IN  earth_radius_km * c

\* Latitudes and longitudes of the positions, in degrees.
Latitudes == {-34, 0, 48, 90}

Longitudes == {-180, 9, 151, 180}

Positions == {<<lat, lon>> : lat \in Latitudes, lon \in Longitudes}

\* A caller computes the distance between two positions.
distance ==
    \E position1, position2 \in Positions :
        /\ outcome' = [op |-> "calculate_distance_between_coordinates",
                       target |-> NoTarget,
                       result |-> calculate_distance_between_coordinates(
                                      position1, position2),
                       position1 |-> position1, position2 |-> position2]
        /\ UNCHANGED <<core_vars, member_vars, geo_vars, group_vars,
                       announcement_vars, next_id>>

\* ------------------------------------------------------- specifications
NextPhotos ==
    \/ create_adoption_notice
    \/ add_notice_photo
    \/ create_animal
    \/ add_animal_photo
    \/ delete_adoption_notice

NextModeration ==
    \/ create_adoption_notice
    \/ create_comment
    \/ delete_adoption_notice
    \/ delete_comment
    \/ file_report
    \/ apply_action

NextMembers ==
    \/ create_user
    \/ save_user
    \/ delete_member
    \/ delete_user

NextGeo ==
    \/ Location_get_location_from_string
    \/ GeoAPI_get_location_from_string

NextGroups ==
    \/ create_group
    \/ add_permission
    \/ delete_group
    \/ ensure_groups

NextAnnouncements ==
    \/ create_announcement
    \/ tick
    \/ show_announcements

NextDistance == distance

Next ==
    \/ NextPhotos
    \/ NextModeration
    \/ NextMembers
    \/ NextGeo
    \/ NextGroups
    \/ NextAnnouncements
    \/ NextDistance

SpecPhotos == Init /\ [][NextPhotos]_vars

SpecModeration == Init /\ [][NextModeration]_vars

SpecMembers == Init /\ [][NextMembers]_vars

SpecGeo == Init /\ [][NextGeo]_vars

SpecGroups == Init /\ [][NextGroups]_vars

SpecAnnouncements == Init /\ [][NextAnnouncements]_vars

SpecDistance == Init /\ [][NextDistance]_vars

Spec == Init /\ [][Next]_vars

\* ----------------------------------------------------------- properties
\* The photos of the animals of notice n with a primary key up to k, animal
\* after animal.
RECURSIVE animal_photos_upto(_, _)
animal_photos_upto(n, k) ==
    IF k = 0 THEN <<>>
    ELSE animal_photos_upto(n, k - 1)
         \o (IF k \in DOMAIN Animal /\ Animal[k].adoption_notice = n
             THEN Animal[k].photos ELSE <<>>)

animal_photos(n) == animal_photos_upto(n, next_id.animal - 1)

\* C1: for a notice with at least one directly attached photo, get_photos
\* returns exactly the directly attached photos in attachment order; nothing
\* in the result comes from an animal, however many animal photos there are.
C1_DirectPhotosOnly ==
    \A n \in DOMAIN AdoptionNotice :
        Len(AdoptionNotice[n].photos) >= 1 =>
            /\ get_photos(n) = Some(AdoptionNotice[n].photos)
            /\ Len(get_photos(n).value) = Len(AdoptionNotice[n].photos)

\* A notice with a photo of its own whose animal has a photo the notice has not.
C1_Witness ==
    \E n \in DOMAIN AdoptionNotice, a \in DOMAIN Animal :
        /\ Len(AdoptionNotice[n].photos) >= 1
        /\ Animal[a].adoption_notice = n
        /\ Range(Animal[a].photos) \ Range(AdoptionNotice[n].photos) # {}
        /\ get_photos(n) = Some(AdoptionNotice[n].photos)

\* C2: for a notice with no directly attached photo and at least one animal
\* photo, get_photos returns the concatenation of its animals' photo
\* sequences in animal order, nothing added, dropped or reordered.
C2_AnimalPhotosConcatenated ==
    \A n \in DOMAIN AdoptionNotice :
        (Len(AdoptionNotice[n].photos) = 0 /\ Len(animal_photos(n)) >= 1) =>
            get_photos(n) = Some(animal_photos(n))

\* A notice without photos of its own and two animals with photos, the
\* concatenation being neither sorted nor free of repetition.
C2_Witness ==
    \E n \in DOMAIN AdoptionNotice, a, b \in DOMAIN Animal :
        /\ Len(AdoptionNotice[n].photos) = 0
        /\ a < b
        /\ Animal[a].adoption_notice = n /\ Animal[b].adoption_notice = n
        /\ Animal[a].photos = <<2>>
        /\ Animal[b].photos = <<1, 2>>
        /\ get_photos(n) = Some(<<2, 1, 2>>)

\* No photo is attached to notice n or to any of its animals.
no_photos(n) ==
    /\ Len(AdoptionNotice[n].photos) = 0
    /\ \A a \in DOMAIN Animal :
           Animal[a].adoption_notice = n => Len(Animal[a].photos) = 0

\* C3: for a notice with no photos anywhere, get_photos returns an empty
\* sequence (a value, not None) and get_photo returns None.
C3_NoPhotosEmptySequence ==
    \A n \in DOMAIN AdoptionNotice :
        no_photos(n) => /\ get_photos(n) = Some(<<>>)
                        /\ get_photo(n) = None

\* C4: get_photo returns the first element of what get_photos returns, and
\* None exactly when get_photos yields no photos.
C4_PrimaryIsFirst ==
    \A n \in DOMAIN AdoptionNotice :
        LET photos == get_photos(n)
            yields_none == photos.is_none \/ Len(photos.value) = 0
        IN  /\ yields_none <=> get_photo(n) = None
            /\ ~yields_none => get_photo(n) = Some(photos.value[1])

\* A notice whose own first photo differs from its animals' first photo, and
\* a notice with no photos at all.
C4_Witness ==
    /\ \E n \in DOMAIN AdoptionNotice :
           /\ Len(AdoptionNotice[n].photos) >= 1
           /\ Len(animal_photos(n)) >= 1
           /\ animal_photos(n)[1] # AdoptionNotice[n].photos[1]
           /\ get_photo(n) = Some(AdoptionNotice[n].photos[1])
    /\ \E n \in DOMAIN AdoptionNotice : no_photos(n) /\ get_photo(n) = None

\* The reports stored before and after a step.
Surviving == DOMAIN Report \cap DOMAIN Report'

\* C5 as stated: a status changes only from waiting, to action-taken or to
\* no-action-taken; it never changes between those two.
C5_OnlyFromWaiting ==
    [][\A r \in Surviving :
           Report'[r].status # Report[r].status =>
               /\ Report[r].status = WAITING
               /\ Report'[r].status \in {ACTION_TAKEN, NO_ACTION_TAKEN}]_vars

\* C5 amended: a status changes only in a step that adds one moderation
\* action to the report's log, the new status is action-taken or
\* no-action-taken, and it is never waiting again.
C5_NeverBackToWaiting ==
    [][\A r \in Surviving :
           Report'[r].status # Report[r].status =>
               /\ Report'[r].status # WAITING
               /\ Report'[r].status \in {ACTION_TAKEN, NO_ACTION_TAKEN}
               /\ Len(filter_report(ModerationAction', r)) =
                      Len(get_moderation_actions(r)) + 1]_vars

\* A report that was no-action-taken and is action-taken now.
C5_Witness ==
    \E r \in DOMAIN Report :
        LET log == get_moderation_actions(r)
        IN  /\ Len(log) = 2
            /\ ModerationAction[log[1]].action = NONE
            /\ ModerationAction[log[2]].action = DELETE
            /\ Report[r].status = ACTION_TAKEN

\* The status the action kind k stands for.
classification(k) == IF k = "no_action_taken" THEN "no action taken"
                     ELSE "action taken"

\* C6: the status of a report with a non-empty log is the classification of
\* the action applied last.
C6_StatusFollowsLastAction ==
    \A r \in DOMAIN Report :
        LET log == get_moderation_actions(r)
        IN  Len(log) >= 1 =>
                Report[r].status = classification(ModerationAction[log[Len(log)]].action)

\* no_action_taken and then user_banned: the report is action-taken.
C6_Witness ==
    \E r \in DOMAIN Report :
        LET log == get_moderation_actions(r)
        IN  /\ Len(log) = 2
            /\ ModerationAction[log[1]].action = NONE
            /\ ModerationAction[log[2]].action = BAN
            /\ Report[r].status = ACTION_TAKEN

\* C7: a report whose log is empty is waiting (a new report has an empty
\* log, so it is created waiting).
C7_EmptyLogIsWaiting ==
    \A r \in DOMAIN Report :
        Len(get_moderation_actions(r)) = 0 => Report[r].status = WAITING

\* A waiting report without actions beside a report that has left waiting.
C7_Witness ==
    \E r, q \in DOMAIN Report :
        /\ Len(get_moderation_actions(r)) = 0 /\ Report[r].status = WAITING
        /\ r > q
        /\ Len(get_moderation_actions(q)) >= 1 /\ Report[q].status # WAITING

\* C8: while a report exists, a step leaves its log (get_moderation_actions
\* before and after the step) alone or appends one action to it, after the
\* entries already there; every entry of the log belongs to the report; no stored action is altered, none is removed while
\* its report is stored, and a step creates at most one action.
C8_LogAppendOnly ==
    [][/\ \A r \in Surviving :
              LET old == get_moderation_actions(r)
                  new == filter_report(ModerationAction', r)
              IN  /\ \/ new = old
                     \/ /\ Len(new) = Len(old) + 1
                        /\ SubSeq(new, 1, Len(old)) = old
                  /\ \A a \in Range(old) : ModerationAction[a].report = r
       /\ \A a \in DOMAIN ModerationAction :
              IF a \in DOMAIN ModerationAction'
              THEN ModerationAction'[a] = ModerationAction[a]
              ELSE ModerationAction[a].report \notin DOMAIN Report'
       /\ Cardinality(DOMAIN ModerationAction' \ DOMAIN ModerationAction) <= 1]_vars

\* Two reports, one of them with two actions in the order applied.
C8_Witness ==
    \E r, q \in DOMAIN Report :
        /\ r # q
        /\ Len(get_moderation_actions(r)) = 2
        /\ get_moderation_actions(r)[1] < get_moderation_actions(r)[2]
        /\ ModerationAction[get_moderation_actions(r)[1]].action = COMMENT
        /\ ModerationAction[get_moderation_actions(r)[2]].action = OTHER_ACTION

\* C9: every stored report is a report of one stored adoption notice or a
\* report of one stored comment, never both and never neither.
C9_ExactlyOneTarget ==
    \A r \in DOMAIN Report :
        \/ /\ r \in DOMAIN ReportAdoptionNotice
           /\ r \notin DOMAIN ReportComment
           /\ ReportAdoptionNotice[r].adoption_notice \in DOMAIN AdoptionNotice
        \/ /\ r \in DOMAIN ReportComment
           /\ r \notin DOMAIN ReportAdoptionNotice
           /\ ReportComment[r].reported_comment \in DOMAIN Comment

\* A report of a notice and a report of a comment, after the deletion of a
\* comment took its replies and their reports with it.
C9_Witness ==
    /\ DOMAIN ReportAdoptionNotice # {}
    /\ DOMAIN ReportComment # {}
    /\ Cardinality(DOMAIN Comment) < next_id.comment - 1

\* C10: file_report on no target ends InvalidTarget, on a target that is not
\* stored ends NotFound, and a call that ends in either changes nothing in
\* the store.
C10_FailedFilingChangesNothing ==
    [][outcome'.op = "file_report" =>
           LET t == outcome'.target
               stored == \/ t.kind = "notice" /\ t.id \in DOMAIN AdoptionNotice
                         \/ t.kind = "comment" /\ t.id \in DOMAIN Comment
           IN  /\ t.kind = "none" <=> outcome'.result = "InvalidTarget"
               /\ (t.kind # "none" /\ ~stored) <=> outcome'.result = "NotFound"
               /\ outcome'.result \in {"InvalidTarget", "NotFound"} =>
                      UNCHANGED <<AdoptionNotice, Animal, Comment, Report,
                                  ReportAdoptionNotice, ReportComment,
                                  ModerationAction, next_id>>]_vars

\* A report was filed on a comment that has been deleted: NotFound, with
\* reports and actions in the store.
C10_Witness ==
    /\ outcome.op = "file_report"
    /\ outcome.result = "NotFound"
    /\ outcome.target.kind = "comment"
    /\ outcome.target.id < next_id.comment
    /\ DOMAIN Report # {}
    /\ DOMAIN ModerationAction # {}


\* C11: every stored user has exactly one Member record, whatever users
\* were created, saved again or had their Member deleted.
C11_ExactlyOneMember ==
    \A u \in DOMAIN User : Cardinality(members_of(u)) = 1

\* The calls that resolve a place text to a Location.
resolve_ops ==
    {"Location.get_location_from_string", "GeoAPI.get_location_from_string"}

\* An upstream answer with no result, or whose first result lacks place_id,
\* lat, lon or both of name and display_name.
empty_or_malformed(response) ==
    \/ Len(response) = 0
    \/ ~ ({"place_id", "lat", "lon"} \subseteq DOMAIN response[1])
    \/ {"name", "display_name"} \cap DOMAIN response[1] = {}

\* C12: a resolve whose upstream answer is empty or malformed ends in
\* LookupFailure and creates no Location.
C12_BadResponseIsLookupFailure ==
    [][(outcome'.op \in resolve_ops /\ empty_or_malformed(outcome'.response))
           => (outcome'.result = "LookupFailure" /\ Location' = Location)]_vars

\* C13: the distance from A to B is the distance from B to A, and the
\* distance from A to A is 0.
C13_DistanceSymmetric ==
    outcome.op = "calculate_distance_between_coordinates" =>
        /\ outcome.result = calculate_distance_between_coordinates(
                                outcome.position2, outcome.position1)
        /\ outcome.position1 = outcome.position2 => outcome.result = 0

\* A distance between two positions that differ in latitude and longitude.
C13_Witness ==
    /\ outcome.op = "calculate_distance_between_coordinates"
    /\ outcome.position1[1] # 0 - outcome.position2[1]
    /\ outcome.position1[1] # outcome.position2[1]
    /\ outcome.position1[2] # outcome.position2[2]
    /\ outcome.result > 1000 * Scale

permissions_of(G, name) ==
    IF Cardinality({g \in DOMAIN G : G[g].name = name}) = 1
    THEN G[CHOOSE g \in DOMAIN G : G[g].name = name].permissions
    ELSE {"?"}

\* C15: after ensure_groups, whatever the groups were before, each of
\* Members, Coordinators, Moderators and Admins exists exactly once; Members
\* has no permission, Coordinators has create_active_adoption_notice,
\* Moderators has that and view_report, add_moderationaction and change_user,
\* Admins has the same as Moderators; no level holds a permission that a
\* higher level lacks; and running ensure_groups again changes nothing.
C15_GroupsEnsured ==
    outcome.op = "ensure_groups" =>
        /\ permissions_of(Group, "Members") = {}
        /\ permissions_of(Group, "Coordinators")
               = {"create_active_adoption_notice"}
        /\ permissions_of(Group, "Moderators")
               = {"create_active_adoption_notice", "view_report",
                  "add_moderationaction", "change_user"}
        /\ permissions_of(Group, "Admins")
               = permissions_of(Group, "Moderators")
        /\ permissions_of(Group, "Members")
               \subseteq permissions_of(Group, "Coordinators")
        /\ permissions_of(Group, "Coordinators")
               \subseteq permissions_of(Group, "Moderators")
        /\ permissions_of(Group, "Moderators")
               \subseteq permissions_of(Group, "Admins")
        /\ ensured(Group, next_id.group).Group = Group

\* ensure_groups has run after an administrator had deleted a group, while
\* a group of another name holds a permission.
C15_Witness ==
    /\ outcome.op = "ensure_groups"
    /\ Cardinality(DOMAIN Group) < next_id.group - 1
    /\ \E g \in DOMAIN Group :
           Group[g].name = "Editors" /\ Group[g].permissions # {}

\* An announcement that is published now and may be shown to the caller.
shown_to(a, logged_in) ==
    /\ Announcement[a].publish_start_time < now
    /\ now < Announcement[a].publish_end_time
    /\ logged_in \/ ~ Announcement[a].logged_in_only

=========================================================================
